---- MODULE Spec2Model ----
(***************************************************************************)
(* A model of jui: the glyph atlas cache of TextRenderer (cache_char over  *)
(* an LruCache<char, AtlasChar> and an etagere AtlasAllocator), the text   *)
(* flow of add_string_to_batch / add_char_to_batch, and the box layout of  *)
(* Container::layout.                                                      *)
(*                                                                         *)
(* Coordinates, advances and sizes are f32 in the source; the model uses   *)
(* integers and draws only inputs on which the source's f32 arithmetic is  *)
(* exact (integer advances, box sizes divisible by the number of           *)
(* children), so floor() is the identity and ceil(a / b) is the integer    *)
(* ceiling.                                                                *)
(***************************************************************************)
EXTENDS Integers, Sequences, FiniteSets, TLC

VARIABLES
    allocations,   \* Atlas.allocations: LruCache<char, AtlasChar>, LRU first, MRU last
    allocator,     \* Atlas.allocator: the live allocations of the AtlasAllocator
    panicked,      \* "none", or the unwrap() that aborted the process
    vertices,      \* TextRenderer.vertices
    indices,       \* TextRenderer.indices
    instances,     \* QuadRenderer.instances
    textured,      \* TexturedQuadRenderer.instances
    log,           \* calls made by the last operation, in order (history)
    op,            \* the last operation and its arguments (history)
    prev,          \* the operation before the last one (history)
    pre,           \* the atlas before the last operation (history)
    touched,       \* characters by their last cache_char call, latest last (history)
    ret,           \* value returned by the last add_string_to_batch
    boxes,         \* child boxes handed out by the last Container::layout
    scene          \* SceneRoot: the root, the window, the uniforms, the event loop

vars == <<allocations, allocator, panicked, vertices, indices, instances, textured, log, op, prev, pre,
          touched, ret, boxes, scene>>

----------------------------------------------------------------------------
(* Bounds of the model *)

\* side of the square atlas handed to generate_img_atlas (256 in TextRenderer::new)
AtlasSize == 6

\* longest string laid out
MaxLen == 10

\* most elements of a container
MaxChildren == 3

\* width of the wrap boxes, in glyph advances
WrapAdvances == 3

\* the most lines of one multi-line text
MaxLines == 3

\* the most frames drawn
MaxFrames == 3

----------------------------------------------------------------------------
(* The glyph rasterizer: freetype's Face::load_char, an external and       *)
(* deterministic function of the character.                                *)

\* "a","b","c": tall glyphs of equal size; "d": a small glyph; " ": whitespace;
\* "z": not whitespace, empty bitmap (e.g. U+200B); "W": wider than the atlas;
\* "m": a flat glyph as wide as the atlas allows; "x": a character on which load_char
\* returns Err.
Chars == {"a", "b", "c", "d", " ", "z", "W", "x"}

\* characters whose glyphs differ in size, for a miss that needs several evictions
MixedChars == {"a", "b", "d", "m", " ", "z"}

LoadCharOk(c) == c # "x"

IsWhitespace(c) == c = " "

BitmapWidth(c) ==
    CASE c \in {"a", "b", "c", "d"} -> 1
      [] c = "m" -> AtlasSize - 2
      [] c = "W" -> AtlasSize
      [] OTHER -> 0

BitmapRows(c) ==
    CASE c \in {"a", "b", "c"} -> 4
      [] c \in {"d", "m", "W"} -> 1
      [] OTHER -> 0

BitmapLeft(c) == 0

BitmapTop(c) == BitmapRows(c)

AdvanceX(c) == IF c = "z" THEN 0 ELSE 2

AdvanceY(c) == 0

----------------------------------------------------------------------------
(* etagere::AtlasAllocator over an AtlasSize x AtlasSize canvas.  A live    *)
(* allocation is its rectangle [x, y, w, h] (min corner and size).         *)

Overlap(r, s) ==
    /\ r.x < s.x + s.w
    /\ s.x < r.x + r.w
    /\ r.y < s.y + s.h
    /\ s.y < r.y + r.h

FreePlaces(live, w, h) ==
    { p \in (0 .. AtlasSize) \X (0 .. AtlasSize) :
        /\ p[1] + w <= AtlasSize
        /\ p[2] + h <= AtlasSize
        /\ \A s \in live : ~Overlap([x |-> p[1], y |-> p[2], w |-> w, h |-> h], s) }

\* allocate(size2(w, h)): None (<<>>) when nothing fits, else Some(<<rect>>),
\* the free place that comes first bottom-up, then left to right.
Allocate(live, w, h) ==
    LET P == FreePlaces(live, w, h) IN
    IF P = {} THEN <<>>
    ELSE LET p == CHOOSE q \in P :
                    \A o \in P : q[2] < o[2] \/ (q[2] = o[2] /\ q[1] <= o[1])
         IN <<[x |-> p[1], y |-> p[2], w |-> w, h |-> h]>>

Deallocate(live, r) == live \ {r}

----------------------------------------------------------------------------
(* lru::LruCache<char, AtlasChar>, unbounded: a sequence, LRU first.        *)

Has(cache, c) == \E i \in 1 .. Len(cache) : cache[i].ch = c

Without(cache, c) == SelectSeq(cache, LAMBDA e : e.ch # c)

Lookup(cache, c) == SelectSeq(cache, LAMBDA e : e.ch = c)

\* LruCache::get(&c) on a present key: moves the entry to the MRU end
Get(cache, c) == Without(cache, c) \o Lookup(cache, c)

\* LruCache::put(c, e): replaces any entry of the key, inserts as MRU
Put(cache, e) == Without(cache, e.ch) \o <<e>>

AtlasChar(c, pos, alloc) ==
    [ch |-> c,
     advance |-> <<AdvanceX(c), AdvanceY(c)>>,
     pos |-> pos,
     size |-> <<BitmapWidth(c), BitmapRows(c)>>,
     alloc |-> alloc]

\* an entry of the call log: the call, its character (its string for add_string), the
\* region involved, and the pen (the origin for add_string, the value for return, the
\* origin and the extent of the copy for write_texture)
PenEvent(ev, c, rect, at) == [ev |-> ev, ch |-> c, rect |-> rect, at |-> at]

Event(ev, c, rect) == PenEvent(ev, c, rect, <<>>)

----------------------------------------------------------------------------
(* TextRenderer::cache_char, as a function on the renderer state           *)
(* st = [allocations, allocator, panicked, log, vertices, indices,         *)
(* instances, textured, window_size, boxes].                               *)

\* (mutant) a hit that looks the entry up without touching its recency
Hit_NoPromote(st, c) == st

\* (mutant) a hit that promotes the entry and gives its region back to the allocator
Hit_ReleasesRegion(st, c) ==
    [st EXCEPT
        !.allocations = Get(@, c),
        !.allocator = @ \ { e.alloc[1] : e \in { d \in {Lookup(st.allocations, c)[1]} :
                                                      d.alloc # <<>> } }]

\* cache hit: LruCache::get finds the entry and makes it the MRU one
Hit(st, c) == [st EXCEPT !.allocations = Get(@, c)]

\* (mutant) the bitmap uploaded at the origin of the atlas texture
Insert_UploadsAtAtlasOrigin(st, c, got) ==
    [st EXCEPT
        !.allocator = @ \cup {got[1]},
        !.log = @ \o <<PenEvent("write_texture", c, got,
                                <<0, 0, BitmapWidth(c) + 2, BitmapRows(c) + 2>>),
                       Event("put", c, got)>>,
        !.allocations =
            Put(@, AtlasChar(c, <<BitmapLeft(c), BitmapTop(c) - BitmapRows(c)>>, got))]

\* allocation succeeded: upload the padded bitmap at the region's origin, put the entry
Insert(st, c, got) ==
    [st EXCEPT
        !.allocator = @ \cup {got[1]},
        !.log = @ \o <<PenEvent("write_texture", c, got,
                                <<got[1].x, got[1].y,
                                  BitmapWidth(c) + 2, BitmapRows(c) + 2>>),
                       Event("put", c, got)>>,
        !.allocations =
            Put(@, AtlasChar(c, <<BitmapLeft(c), BitmapTop(c) - BitmapRows(c)>>, got))]

\* (mutant) an eviction that forgets to hand the region back to the allocator
Evict_KeepsRegion(st) ==
    LET lru == Head(st.allocations) IN
    [st EXCEPT
        !.allocations = Tail(@),
        !.log = Append(@, Event("pop_lru", lru.ch, lru.alloc))]

\* (mutant) an eviction that frees the region but keeps the entry, as the newest
Evict_KeepsEntry(st) ==
    LET lru == st.allocations[1] IN
    [st EXCEPT
        !.allocations = Tail(@) \o <<[lru EXCEPT !.alloc = <<>>]>>,
        !.allocator = IF lru.alloc # <<>> THEN Deallocate(@, lru.alloc[1]) ELSE @,
        !.log = @ \o <<Event("pop_lru", lru.ch, lru.alloc)>>
                  \o (IF lru.alloc # <<>>
                      THEN <<Event("deallocate", lru.ch, lru.alloc)>>
                      ELSE <<>>)]

\* (mutant) an eviction that takes the most recently used entry
Evict_PopsMRU(st) ==
    LET mru == st.allocations[Len(st.allocations)] IN
    [st EXCEPT
        !.allocations = SubSeq(@, 1, Len(@) - 1),
        !.allocator = IF mru.alloc # <<>> THEN Deallocate(@, mru.alloc[1]) ELSE @,
        !.log = @ \o <<Event("pop_lru", mru.ch, mru.alloc)>>
                  \o (IF mru.alloc # <<>>
                      THEN <<Event("deallocate", mru.ch, mru.alloc)>>
                      ELSE <<>>)]

\* allocation failed on a non-empty cache: pop the LRU entry, free its region if any
Evict(st) ==
    LET lru == Head(st.allocations) IN
    [st EXCEPT
        !.allocations = Tail(@),
        !.allocator = IF lru.alloc # <<>> THEN Deallocate(@, lru.alloc[1]) ELSE @,
        !.log = @ \o <<Event("pop_lru", lru.ch, lru.alloc)>>
                  \o (IF lru.alloc # <<>>
                      THEN <<Event("deallocate", lru.ch, lru.alloc)>>
                      ELSE <<>>)]

\* the loop "Evict characters until we can place the new one"; pop_lru().unwrap()
\* panics when the cache is empty
RECURSIVE EvictLoop(_, _)
\* one round of the loop, got being what allocate returned
Placed(st, c, got) ==
    LET tried == [st EXCEPT !.log = Append(@, Event("allocate", c, got))] IN
    IF got # <<>> THEN Insert(tried, c, got)
    ELSE IF st.allocations = <<>> THEN [tried EXCEPT !.panicked = "pop_lru"]
    ELSE EvictLoop(Evict(tried), c)

EvictLoop(st, c) ==
    Placed(st, c, Allocate(st.allocator, BitmapWidth(c) + 2, BitmapRows(c) + 2))

\* (mutant) whitespace placed in the atlas like any other glyph
CacheWhitespace_Allocates(st, c) == EvictLoop(st, c)

\* a whitespace character: an entry of advance metrics only, without a region
CacheWhitespace(st, c) ==
    [st EXCEPT
        !.allocations = Put(@, AtlasChar(c, <<0, 0>>, <<>>)),
        !.log = Append(@, Event("put", c, <<>>))]

cache_char(st0, c) ==
    LET st == [st0 EXCEPT !.log = Append(@, Event("cache_char", c, <<>>))] IN
    IF Has(st.allocations, c)
    THEN Hit(st, c)
    ELSE IF ~LoadCharOk(c)
    THEN [st EXCEPT !.log = Append(@, Event("load_char", c, <<>>)),
                    !.panicked = "load_char"]
    ELSE LET loaded == [st EXCEPT !.log = Append(@, Event("load_char", c, <<>>))] IN
         IF IsWhitespace(c)
         THEN CacheWhitespace(loaded, c)
         ELSE IF BitmapWidth(c) = 0 \/ BitmapRows(c) = 0
         THEN loaded
         ELSE EvictLoop(loaded, c)

----------------------------------------------------------------------------
(* layout::Bbox *)

Bbox(x0, y0, x1, y1) == [min |-> <<x0, y0>>, max |-> <<x1, y1>>]

width(b) == b.max[1] - b.min[1]

height(b) == b.max[2] - b.min[2]

top_left(b) == <<b.min[1], b.max[2]>>

inside(b, p) ==
    /\ b.min[1] <= p[1] /\ p[1] <= b.max[1]
    /\ b.min[2] <= p[2] /\ p[2] <= b.max[2]

----------------------------------------------------------------------------
(* The text flow of TextRenderer.  A flow fl = [st, x, y, returned] is the  *)
(* renderer state, the pen, and whether the function has returned early.   *)

font_size == 18

line_height == font_size

\* a texture coordinate: atlas pixels over atlas.size
TexCoord(px) == [num |-> px, den |-> AtlasSize]

U16(n) == n % 65536

\* (mutant) texture coordinates taken from the corner of the region, padding included
PushQuad_NoPaddingOffset(st, glyph, x, y) ==
    LET r == glyph.alloc[1]
        w == glyph.size[1]
        h == glyph.size[2]
        x0 == TexCoord(r.x)
        x1 == TexCoord(r.x + w)
        y1 == TexCoord(r.y + h)
        y0 == TexCoord(r.y)
        start == U16(4 * (Len(st.indices) \div 6))
    IN
    [st EXCEPT
        !.indices = @ \o <<start, U16(start + 1), U16(start + 2),
                            start, U16(start + 2), U16(start + 3)>>,
        !.vertices = @ \o <<[pos |-> <<x, y>>, tex_coords |-> <<x0, y1>>],
                             [pos |-> <<x + w, y>>, tex_coords |-> <<x1, y1>>],
                             [pos |-> <<x + w, y + h>>, tex_coords |-> <<x1, y0>>],
                             [pos |-> <<x, y + h>>, tex_coords |-> <<x0, y0>>]>>]

\* the six indices and four vertices appended for one glyph
PushQuad(st, glyph, x, y) ==
    LET r == glyph.alloc[1]
        w == glyph.size[1]
        h == glyph.size[2]
        x0 == TexCoord(r.x + 1)
        x1 == TexCoord(r.x + 1 + w)
        y1 == TexCoord(r.y + 1 + h)
        y0 == TexCoord(r.y + 1)
        start == U16(4 * (Len(st.indices) \div 6))
    IN
    [st EXCEPT
        !.indices = @ \o <<start, U16(start + 1), U16(start + 2),
                            start, U16(start + 2), U16(start + 3)>>,
        !.vertices = @ \o <<[pos |-> <<x, y>>, tex_coords |-> <<x0, y1>>],
                             [pos |-> <<x + w, y>>, tex_coords |-> <<x1, y1>>],
                             [pos |-> <<x + w, y + h>>, tex_coords |-> <<x1, y0>>],
                             [pos |-> <<x, y + h>>, tex_coords |-> <<x0, y0>>]>>]

\* (mutant) a glyph without a region is skipped altogether: the pen stays where it is
add_char_to_batch_SkipsBlank(fl, c) ==
    IF ~Has(fl.st.allocations, c) THEN fl
    ELSE LET glyph == Lookup(fl.st.allocations, c)[1]
             got == [fl.st EXCEPT
                        !.allocations = Get(@, c),
                        !.log = Append(@, PenEvent("add_char", c, glyph.alloc,
                                                   <<fl.x, fl.y>>))]
         IN IF glyph.alloc = <<>> THEN fl
            ELSE [fl EXCEPT
                    !.x = @ + glyph.advance[1],
                    !.y = @ + glyph.advance[2],
                    !.st = PushQuad(got, glyph, fl.x + glyph.pos[1], fl.y + glyph.pos[2])]

add_char_to_batch(fl, c) ==
    IF ~Has(fl.st.allocations, c) THEN fl
    ELSE LET glyph == Lookup(fl.st.allocations, c)[1]
             got == [fl.st EXCEPT
                        !.allocations = Get(@, c),
                        !.log = Append(@, PenEvent("add_char", c, glyph.alloc,
                                                   <<fl.x, fl.y>>))]
         IN [fl EXCEPT
                !.x = @ + glyph.advance[1],
                !.y = @ + glyph.advance[2],
                !.st = IF glyph.alloc # <<>>
                       THEN PushQuad(got, glyph, fl.x + glyph.pos[1], fl.y + glyph.pos[2])
                       ELSE got]

\* add_char_to_batch on the state cache_char left, unless cache_char panicked
DrawCached(fl, c, cached) ==
    IF cached.panicked # "none" THEN [fl EXCEPT !.st = cached]
    ELSE add_char_to_batch([fl EXCEPT !.st = cached], c)

\* (mutant) the two calls in the other order: the quad first, the cache fill after it
DrawChar_DrawsThenCaches(fl, c) ==
    LET drawn == add_char_to_batch(fl, c) IN
    [drawn EXCEPT !.st = cache_char(drawn.st, c)]

\* cache_char(c, queue); add_char_to_batch(c, &mut x, &mut y, text_color)
DrawChar(fl, c) == DrawCached(fl, c, cache_char(fl.st, c))

\* the measuring pass: "calculate length for wrapping"; m = [st, len]
RECURSIVE MeasureFrom(_, _, _)
\* self.atlas.allocations.get(&c).unwrap() on the state cache_char left
Measured(m, s, i, cached) ==
    IF cached.panicked # "none" THEN [m EXCEPT !.st = cached]
    ELSE IF ~Has(cached.allocations, s[i])
    THEN [m EXCEPT !.st = [cached EXCEPT !.panicked = "get_unwrap"]]
    ELSE MeasureFrom(
            [st |-> [cached EXCEPT !.allocations = Get(@, s[i])],
             len |-> m.len + Lookup(cached.allocations, s[i])[1].advance[1]],
            s, i + 1)

MeasureFrom(m, s, i) ==
    IF i > Len(s) THEN m
    ELSE Measured(m, s, i, cache_char(m.st, s[i]))

\* ceil(len / width) as usize, for len >= 0 and width > 0
NumLines(len, w) == (len + w - 1) \div w

\* one character of the placing pass inside a wrap box
WrapChar(fl, c, wrap_bbox) ==
    IF fl.x <= wrap_bbox.max[1] /\ ~inside(wrap_bbox, <<fl.x, fl.y>>)
    THEN [fl EXCEPT !.returned = TRUE]
    ELSE DrawChar(IF fl.x > wrap_bbox.max[1]
                  THEN [fl EXCEPT !.x = wrap_bbox.min[1], !.y = @ - line_height]
                  ELSE fl,
                  c)

\* "for c in s.chars()" of the placing pass, from character i on
RECURSIVE WrapChars(_, _, _, _)
WrapChars(fl, s, i, wrap_bbox) ==
    IF i > Len(s) \/ fl.returned \/ fl.st.panicked # "none" THEN fl
    ELSE WrapChars(WrapChar(fl, s[i], wrap_bbox), s, i + 1, wrap_bbox)

\* "for _ in 0..num_lines": k passes over the string are still to run
RECURSIVE WrapLines(_, _, _, _)
\* the end of one pass over the string: "y -= self.line_height()"
EndOfPass(placed, s, k, wrap_bbox) ==
    IF placed.returned \/ placed.st.panicked # "none" THEN placed
    ELSE WrapLines([placed EXCEPT !.y = @ - line_height], s, k - 1, wrap_bbox)

WrapLines(fl, s, k, wrap_bbox) ==
    IF k = 0 \/ fl.returned \/ fl.st.panicked # "none" THEN fl
    ELSE EndOfPass(WrapChars([fl EXCEPT !.x = wrap_bbox.min[1]], s, 1, wrap_bbox),
                   s, k, wrap_bbox)

\* the branch without a wrap box
RECURSIVE PlainChars(_, _, _)
PlainChars(fl, s, i) ==
    IF i > Len(s) \/ fl.st.panicked # "none" THEN fl
    ELSE PlainChars(DrawChar(fl, s[i]), s, i + 1)

\* add_string_to_batch(s, queue, x, y, text_color, wrap): [st, ret]; wrap is <<>> for
\* None and <<bbox>> for Some(bbox); ret is meaningful when st.panicked = "none"
\* "y_start - y" on the flow the function ends with
\* (mutant) the height measured from the origin instead of from the first baseline
Returned_FromOrigin(fl, y_start) ==
    IF fl.st.panicked # "none" THEN [st |-> fl.st, ret |-> 0] ELSE
    [st |-> [fl.st EXCEPT !.log = Append(@, PenEvent("return", "", <<>>,
                                                     <<y_start + line_height - fl.y>>))],
     ret |-> y_start + line_height - fl.y]

Returned(fl, y_start) ==
    IF fl.st.panicked # "none" THEN [st |-> fl.st, ret |-> 0] ELSE
    [st |-> [fl.st EXCEPT !.log = Append(@, PenEvent("return", "", <<>>,
                                                     <<y_start - fl.y>>))],
     ret |-> y_start - fl.y]

\* the placing pass, m being the outcome of the measuring pass
Wrapped(m, s, x, y_start, wrap_bbox) ==
    IF m.st.panicked # "none" THEN [st |-> m.st, ret |-> 0]
    ELSE Returned(WrapLines([st |-> m.st, x |-> x, y |-> y_start, returned |-> FALSE],
                            s, NumLines(m.len, width(wrap_bbox)), wrap_bbox),
                  y_start)

\* the renderer state at the entry of add_string_to_batch: the call and its origin
\* are entered in the call log
Called(st, s, x, y) ==
    [st EXCEPT !.log = Append(@, PenEvent("add_string", s, <<>>, <<x, y>>))]

add_string_to_batch(st, s, x, y, wrap) ==
    IF wrap # <<>>
    THEN Wrapped(MeasureFrom([st |-> Called(st, s, x, y), len |-> 0], s, 1),
                 s, x, y - line_height, wrap[1])
    ELSE Returned(PlainChars([st |-> Called(st, s, x, y), x |-> x,
                              y |-> y - line_height, returned |-> FALSE], s, 1),
                  y - line_height)

\* add_multiline_string_to_batch: the lines from line i on, the origin at height y
RECURSIVE MultilineFrom(_, _, _, _, _, _)
\* "y -= line", line being what add_string_to_batch returned
NextLine(line, text, i, x, y, wrap) ==
    MultilineFrom(line.st, text, i + 1, x, y - line.ret, wrap)

MultilineFrom(st, text, i, x, y, wrap) ==
    IF i > Len(text) \/ st.panicked # "none" THEN st
    ELSE NextLine(add_string_to_batch(st, text[i], x, y, wrap), text, i, x, y, wrap)

add_multiline_string_to_batch(st, text, x, y, wrap) ==
    MultilineFrom(st, text, 1, x, y, wrap)

----------------------------------------------------------------------------
(* layout::Container::layout over a tree of Things.  A Thing is            *)
(* [kind, elements, text, wrap_text]; kind is "Text", "TextMultiLine",     *)
(* "Quad", "TexturedQuad", "Hbox" or "Vbox".                               *)

\* a quotient a / b of the source, kept as the pair of its terms
Frac(a, b) == [num |-> a, den |-> b]

center(b) == <<Frac(b.min[1] + b.max[1], 2), Frac(b.min[2] + b.max[2], 2)>>

\* QuadRenderer::add_instance
add_instance(st, bbox) ==
    [st EXCEPT !.instances =
        Append(@, [origin |-> center(bbox),
                   size |-> <<Frac(width(bbox), st.window_size[1]),
                              Frac(height(bbox), st.window_size[2])>>])]

\* TexturedQuadRenderer::add_instance
add_textured_instance(st, bbox) == [st EXCEPT !.textured = Append(@, bbox)]

\* (mutant) the rows of a Vbox handed out bottom-up in insertion order
child_bbox_VboxBottomUp(is_hbox, parent_size, n, i) ==
    IF is_hbox
    THEN LET child_width == width(parent_size) \div n
             x0 == parent_size.min[1] + child_width * i
         IN Bbox(x0, parent_size.min[2], x0 + child_width, parent_size.max[2])
    ELSE LET child_height == height(parent_size) \div n
             y0 == parent_size.min[2] + child_height * i
         IN Bbox(parent_size.min[1], y0, parent_size.max[1], y0 + child_height)

\* (mutant) the columns of an Hbox one column too far to the right
child_bbox_HboxShifted(is_hbox, parent_size, n, i) ==
    IF is_hbox
    THEN LET child_width == width(parent_size) \div n
             x0 == parent_size.min[1] + child_width * (i + 1)
         IN Bbox(x0, parent_size.min[2], x0 + child_width, parent_size.max[2])
    ELSE LET child_index == n - i - 1
             child_height == height(parent_size) \div n
             y0 == parent_size.min[2] + child_height * child_index
         IN Bbox(parent_size.min[1], y0, parent_size.max[1], y0 + child_height)

\* (mutant) a Vbox whose rows all take the whole parent box
child_bbox_FullHeightRows(is_hbox, parent_size, n, i) ==
    IF is_hbox
    THEN LET child_index == i
             child_width == width(parent_size) \div n
             x0 == parent_size.min[1] + child_width * child_index
         IN Bbox(x0, parent_size.min[2], x0 + child_width, parent_size.max[2])
    ELSE Bbox(parent_size.min[1], parent_size.min[2],
              parent_size.max[1], parent_size.max[2])

\* the box of the i-th (from 0) of n elements; the divisions are exact on the
\* inputs drawn
child_bbox(is_hbox, parent_size, n, i) ==
    IF is_hbox
    THEN LET child_index == i
             child_width == width(parent_size) \div n
             x0 == parent_size.min[1] + child_width * child_index
         IN Bbox(x0, parent_size.min[2], x0 + child_width, parent_size.max[2])
    ELSE LET child_index == n - i - 1
             child_height == height(parent_size) \div n
             y0 == parent_size.min[2] + child_height * child_index
         IN Bbox(parent_size.min[1], y0, parent_size.max[1], y0 + child_height)

\* the match on one element; path is the position of the element in the tree
RECURSIVE layout(_, _, _, _), LayoutFrom(_, _, _, _, _)
LayoutElem(st0, elem, bbox, path) ==
    LET st == [st0 EXCEPT !.boxes =
                 Append(@, [path |-> path, kind |-> elem.kind, bbox |-> bbox])]
        tl == top_left(bbox)
    IN
    CASE elem.kind = "Text" ->
            add_string_to_batch(add_instance(st, bbox), elem.text[1],
                                tl[1], tl[2], <<>>).st
      [] elem.kind = "TextMultiLine" ->
            add_multiline_string_to_batch(add_instance(st, bbox), elem.text,
                tl[1], tl[2], IF elem.wrap_text THEN <<bbox>> ELSE <<>>)
      [] elem.kind = "Quad" -> add_instance(st, bbox)
      [] elem.kind = "TexturedQuad" -> add_textured_instance(st, bbox)
      [] elem.kind \in {"Hbox", "Vbox"} -> layout(st, elem, bbox, path)

\* "for (i, elem) in self.elements().iter().enumerate()", from element i on
LayoutFrom(st, node, parent_size, path, i) ==
    IF i >= Len(node.elements) \/ st.panicked # "none" THEN st
    ELSE LayoutFrom(
            LayoutElem(st, node.elements[i + 1],
                       child_bbox(node.kind = "Hbox", parent_size,
                                  Len(node.elements), i),
                       Append(path, i)),
            node, parent_size, path, i + 1)

layout(st, node, parent_size, path) == LayoutFrom(st, node, parent_size, path, 0)

----------------------------------------------------------------------------
(* The state machine *)

State ==
    [allocations |-> allocations, allocator |-> allocator, panicked |-> panicked,
     log |-> <<>>, vertices |-> vertices, indices |-> indices,
     instances |-> instances, textured |-> textured,
     window_size |-> <<1, 1>>, boxes |-> <<>>]

NoOp == [name |-> "none", c |-> "", s |-> <<>>, x |-> 0, y |-> 0, wrap |-> <<>>]

Atlas == [allocations |-> allocations, allocator |-> allocator, touched |-> touched]

\* the characters in the order of their last cache_char call, latest last
Touch(order, events) ==
    LET calls == SelectSeq(events, LAMBDA e : e.ev = "cache_char")
        last == { i \in 1 .. Len(calls) :
                    \A j \in (i + 1) .. Len(calls) : calls[j].ch # calls[i].ch }
        nth(k) == CHOOSE i \in last : Cardinality({ j \in last : j < i }) = k - 1
    IN SelectSeq(order, LAMBDA d : \A i \in last : calls[i].ch # d)
         \o [k \in 1 .. Cardinality(last) |-> calls[nth(k)].ch]

\* a SceneRoot with an empty root, for the operations that run without one
NoScene ==
    [root |-> [kind |-> "Hbox", elements |-> <<>>, text |-> <<>>, wrap_text |-> FALSE],
     inner_size |-> <<1, 1>>, size |-> <<1, 1>>, uniforms |-> <<1, 1>>,
     frames |-> 0, open |-> TRUE]

Init ==
    /\ scene = NoScene
    /\ allocations = <<>>
    /\ allocator = {}
    /\ panicked = "none"
    /\ vertices = <<>>
    /\ indices = <<>>
    /\ instances = <<>>
    /\ textured = <<>>
    /\ log = <<>>
    /\ op = NoOp
    /\ prev = NoOp
    /\ pre = [allocations |-> <<>>, allocator |-> {}, touched |-> <<>>]
    /\ touched = <<>>
    /\ ret = 0
    /\ boxes = <<>>

Commit(st, o) ==
    /\ allocations' = st.allocations
    /\ allocator' = st.allocator
    /\ panicked' = st.panicked
    /\ vertices' = st.vertices
    /\ indices' = st.indices
    /\ instances' = st.instances
    /\ textured' = st.textured
    /\ log' = st.log
    /\ touched' = Touch(touched, st.log)
    /\ op' = o
    /\ prev' = op
    /\ pre' = Atlas

CacheChar(c) ==
    /\ panicked = "none"
    /\ Commit(cache_char(State, c), [NoOp EXCEPT !.name = "cache_char", !.c = c])
    /\ UNCHANGED <<ret, boxes, scene>>

Next == \E c \in Chars : CacheChar(c)

Spec == Init /\ [][Next]_vars

\* the same machine on glyphs of mixed sizes
NextMixed == \E c \in MixedChars : CacheChar(c)

SpecMixed == Init /\ [][NextMixed]_vars

----------------------------------------------------------------------------
(* The text flow: one call of add_string_to_batch on an empty batch, with  *)
(* arguments and an atlas drawn from bounded sets.                          *)

\* the string of length n that repeats pattern p
Repeat(p, n) == [i \in 1 .. n |-> p[((i - 1) % Len(p)) + 1]]

Patterns ==
    {<<"a">>, <<"a", "b">>, <<"a", " ">>, <<"a", "b", "c">>, <<"d", "a">>,
     <<"b", "x", "a">>, <<"a", "W", "b">>, <<"a", "z">>}

Strings == { Repeat(p, n) : p \in Patterns, n \in 0 .. MaxLen }

\* wrap boxes whose width is WrapAdvances glyph advances, or one unit less or more
WrapBoxes ==
    { Bbox(x0, 0, x0 + w, line_height * n) :
        x0 \in {0, 3},
        w \in {2 * WrapAdvances - 1, 2 * WrapAdvances, 2 * WrapAdvances + 1},
        n \in {2, 4 * WrapAdvances + 1} }

Wraps == {<<>>} \cup { <<b>> : b \in WrapBoxes }

\* atlases left behind by earlier strings: the characters requested so far
WarmUps == {<<>>, <<"a", "b">>, <<"b", " ", "a">>, <<"d", "c", " ">>}

RECURSIVE Warm(_, _)
Warm(st, w) == IF w = <<>> THEN st ELSE Warm(cache_char(st, Head(w)), Tail(w))

EmptyState ==
    [allocations |-> <<>>, allocator |-> {}, panicked |-> "none", log |-> <<>>,
     vertices |-> <<>>, indices |-> <<>>, instances |-> <<>>, textured |-> <<>>,
     window_size |-> <<1, 1>>, boxes |-> <<>>]

\* the arguments of the call are drawn here, with the atlas st that earlier calls
\* left; AddString applies the function to them
InitTextFrom(st, s, wrap, x, y) ==
        /\ wrap # <<>> => <<x, y>> = <<3, 2 * line_height>>
        /\ scene = NoScene
        /\ allocations = st.allocations
        /\ allocator = st.allocator
        /\ panicked = "none"
        /\ vertices = <<>>
        /\ indices = <<>>
        /\ instances = <<>>
        /\ textured = <<>>
        /\ log = <<>>
        /\ touched = Touch(<<>>, st.log)
        /\ op = [name |-> "call", c |-> "", s |-> s, wrap |-> wrap,
                 x |-> IF wrap = <<>> THEN x ELSE top_left(wrap[1])[1],
                 y |-> IF wrap = <<>> THEN y ELSE top_left(wrap[1])[2]]
        /\ prev = NoOp
        /\ pre = [allocations |-> st.allocations, allocator |-> st.allocator,
                  touched |-> Touch(<<>>, st.log)]
        /\ ret = 0
        /\ boxes = <<>>

InitText ==
    \E w \in WarmUps, s \in Strings, wrap \in Wraps, x \in {0, 3},
       y \in {line_height, 2 * line_height} :
        InitTextFrom(Warm(EmptyState, w), s, wrap, x, y)

\* the outcome r = [st, ret] of the call becomes the state
AddStringDone(r) ==
    /\ Commit(r.st, [op EXCEPT !.name = "add_string"])
    /\ ret' = r.ret
    /\ UNCHANGED <<boxes, scene>>

AddString ==
    /\ op.name = "call"
    /\ AddStringDone(add_string_to_batch(State, op.s, op.x, op.y, op.wrap))

NextText == AddString

SpecText == InitText /\ [][NextText]_vars

----------------------------------------------------------------------------
(* Multi-line text: one call of add_multiline_string_to_batch on an empty  *)
(* batch, with a text of at most MaxLines lines.                           *)

Lines ==
    {<<>>, <<"a">>, <<"a", "b">>, <<"a", " ", "b", "a">>, Repeat(<<"d", "c">>, 7)}

Texts == UNION { [1 .. n -> Lines] : n \in 0 .. MaxLines }

\* no wrap box, or the box the text is laid out in (its origin is the top left corner)
TextBoxes == {<<>>, <<Bbox(0, 0, 6, 5 * line_height)>>, <<Bbox(3, 0, 8, 2 * line_height)>>}

InitMultilineFrom(st, text, wrap) ==
    /\ scene = NoScene
    /\ allocations = st.allocations
    /\ allocator = st.allocator
    /\ panicked = "none"
    /\ vertices = <<>>
    /\ indices = <<>>
    /\ instances = <<>>
    /\ textured = <<>>
    /\ log = <<>>
    /\ touched = Touch(<<>>, st.log)
    /\ op = [name |-> "call", text |-> text, wrap |-> wrap,
             x |-> IF wrap = <<>> THEN 0 ELSE top_left(wrap[1])[1],
             y |-> IF wrap = <<>> THEN 5 * line_height ELSE top_left(wrap[1])[2]]
    /\ prev = NoOp
    /\ pre = [allocations |-> st.allocations, allocator |-> st.allocator,
              touched |-> Touch(<<>>, st.log)]
    /\ ret = 0
    /\ boxes = <<>>

InitMultiline ==
    \E w \in {<<>>, <<"b", " ", "a">>}, text \in Texts, wrap \in TextBoxes :
        InitMultilineFrom(Warm(EmptyState, w), text, wrap)

\* the renderer state st the call ends with becomes the state
AddMultilineDone(st) ==
    /\ Commit(st, [op EXCEPT !.name = "add_multiline"])
    /\ UNCHANGED <<ret, boxes, scene>>

AddMultiline ==
    /\ op.name = "call"
    /\ AddMultilineDone(add_multiline_string_to_batch(State, op.text, op.x, op.y, op.wrap))

NextMultiline == AddMultiline

SpecMultiline == InitMultiline /\ [][NextMultiline]_vars

----------------------------------------------------------------------------
(* The layout pass: one call of Container::layout on a tree and a parent   *)
(* box drawn from bounded sets, with an empty atlas and empty batches.     *)

Thing(kind, elements, text, wrap_text) ==
    [kind |-> kind, elements |-> elements, text |-> text, wrap_text |-> wrap_text]

Leaf(kind) == Thing(kind, <<>>, <<>>, FALSE)

\* a container of n solid rectangles
Flat(kind, n) == Thing(kind, [i \in 1 .. n |-> Leaf("Quad")], <<>>, FALSE)

Inner ==
    { Flat(kind, m) : kind \in {"Hbox", "Vbox"}, m \in 0 .. MaxChildren }
    \cup { Leaf("TexturedQuad"),
           Thing("Text", <<>>, <<<<"a", "b", " ", "a">>>>, FALSE),
           Thing("TextMultiLine", <<>>, <<<<"a", "b">>, <<>>, <<"d">>>>, FALSE),
           Thing("TextMultiLine", <<>>, <<<<"a", "b", "a">>, <<"b">>>>, TRUE) }

\* a container of n elements, all solid rectangles but possibly the j-th
Trees ==
    { Flat(kind, n) : kind \in {"Hbox", "Vbox"}, n \in 0 .. MaxChildren }
    \cup { Thing(kind, [i \in 1 .. n |-> IF i = j THEN e ELSE Leaf("Quad")], <<>>, FALSE) :
             kind \in {"Hbox", "Vbox"}, n \in 1 .. MaxChildren, j \in 1 .. MaxChildren,
             e \in Inner }

ParentBoxes ==
    { Bbox(0, 0, 300, 100), Bbox(0, 0, 100, 200), Bbox(0, 0, 240, 360),
      Bbox(12, 60, 132, 300), Bbox(12, 60, 12, 300) }

\* every division made while laying the tree out in the box is exact
RECURSIVE ExactSplit(_, _)
ExactSplit(node, b) ==
    LET n == Len(node.elements) IN
    node.kind \in {"Hbox", "Vbox"} /\ n > 0 =>
        /\ (IF node.kind = "Hbox" THEN width(b) ELSE height(b)) % n = 0
        /\ \A i \in 0 .. n - 1 :
              ExactSplit(node.elements[i + 1], child_bbox(node.kind = "Hbox", b, n, i))

InitLayout ==
    \E tree \in Trees, b \in ParentBoxes :
        /\ ExactSplit(tree, b)
        /\ width(b) > 0 \/ \A i \in 1 .. Len(tree.elements) : ~tree.elements[i].wrap_text
        /\ scene = NoScene
        /\ allocations = <<>>
        /\ allocator = {}
        /\ panicked = "none"
        /\ vertices = <<>>
        /\ indices = <<>>
        /\ instances = <<>>
        /\ textured = <<>>
        /\ log = <<>>
        /\ touched = <<>>
        /\ op = [name |-> "call", tree |-> tree, parent_size |-> b]
        /\ prev = NoOp
        /\ pre = [allocations |-> <<>>, allocator |-> {}, touched |-> <<>>]
        /\ ret = 0
        /\ boxes = <<>>

\* the renderer state st the layout pass ends with becomes the state
LayoutDone(st) ==
    /\ Commit(st, [op EXCEPT !.name = "layout"])
    /\ boxes' = st.boxes
    /\ UNCHANGED <<ret, scene>>

Layout ==
    /\ op.name = "call"
    /\ LayoutDone(layout([State EXCEPT !.window_size =
                             <<width(op.parent_size), height(op.parent_size)>>],
                         op.tree, op.parent_size, <<>>))

NextLayout == Layout

SpecLayout == InitLayout /\ [][NextLayout]_vars

----------------------------------------------------------------------------
(* The frame: the event loop of SceneRoot::run.  Each RedrawRequested runs *)
(* SceneRoot::update (clear, layout pass, upload) and State::render.       *)

\* QuadRenderer::clear
QuadRenderer_clear(st) == [st EXCEPT !.instances = <<>>]

\* (mutant) a clear that forgets the vertices
clear_KeepsVertices(st) == [st EXCEPT !.indices = <<>>]

\* TextRenderer::clear
clear(st) == [st EXCEPT !.indices = <<>>, !.vertices = <<>>]

\* State::clear: every batch is emptied
State_clear(st) ==
    [clear(QuadRenderer_clear(st)) EXCEPT
        !.textured = <<>>,
        !.log = Append(@, Event("clear", "", <<>>))]

\* queue.write_buffer of n elements of a batch into its GPU buffer
WriteBuffer(batch, n) == PenEvent("write_buffer", batch, <<>>, <<n>>)

\* State::update: each renderer takes the window size as its uniforms and uploads
\* its batch
State_update(st, window_size) ==
    [st EXCEPT
        !.window_size = window_size,
        !.log = @ \o <<WriteBuffer("instances", Len(st.instances)),
                       WriteBuffer("textured", Len(st.textured)),
                       WriteBuffer("vertices", Len(st.vertices)),
                       WriteBuffer("indices", Len(st.indices))>>]

\* the upload that follows the layout pass, unless the layout pass panicked
Uploaded(laid, window_size) ==
    IF laid.panicked # "none" THEN laid ELSE State_update(laid, window_size)

\* (mutant) the batches uploaded before the layout pass has filled them
update_UploadsFirst(st, root, window_size) ==
    layout(State_update(State_clear(st), window_size), root,
           Bbox(0, 0, window_size[1], window_size[2]), <<>>)

\* SceneRoot::update
update(st, root, window_size) ==
    Uploaded(layout(State_clear(st), root,
                    Bbox(0, 0, window_size[1], window_size[2]), <<>>),
             window_size)

\* what surface.get_current_texture() can return
SurfaceResults == {"Ok", "Lost", "Outdated", "OutOfMemory", "Timeout"}

\* draw_indexed over n elements of a batch
Draw(batch, n) == PenEvent("draw_indexed", batch, <<>>, <<n>>)

\* State::render: with a surface texture, one render pass that draws the three batches
render(st, surface) ==
    IF st.panicked # "none" \/ surface # "Ok" THEN st
    ELSE [st EXCEPT
            !.log = @ \o <<Draw("instances", Len(st.instances)),
                           Draw("textured", Len(st.textured)),
                           Draw("indices", Len(st.indices)),
                           Event("present", "", <<>>)>>]

\* the roots a scene is built with
Roots ==
    { Thing("Hbox", <<Thing("TextMultiLine", <<>>,
                            <<<<"a", "b", " ", "a">>, Repeat(<<"d", "c">>, 5), <<"b">>>>,
                            TRUE)>>, <<>>, FALSE),
      Thing("Vbox", <<Leaf("Quad"),
                      Thing("Text", <<>>, <<<<"a", "b", "c", "a", "b">>>>, FALSE),
                      Leaf("TexturedQuad")>>, <<>>, FALSE),
      Thing("Hbox", <<Flat("Vbox", 2),
                      Thing("TextMultiLine", <<>>, <<<<"a">>, <<"a", "d">>>>, FALSE)>>,
            <<>>, FALSE) }

\* window.inner_size()
WindowSizes == {<<6, 72>>, <<12, 36>>, <<24, 108>>}

InitFrame ==
    \E root \in Roots, size \in WindowSizes :
        /\ ExactSplit(root, Bbox(0, 0, size[1], size[2]))
        /\ scene = [root |-> root, inner_size |-> size, size |-> size,
                    uniforms |-> size, frames |-> 0, open |-> TRUE]
        /\ allocations = <<>>
        /\ allocator = {}
        /\ panicked = "none"
        /\ vertices = <<>>
        /\ indices = <<>>
        /\ instances = <<>>
        /\ textured = <<>>
        /\ log = <<>>
        /\ touched = <<>>
        /\ op = NoOp
        /\ prev = NoOp
        /\ pre = [allocations |-> <<>>, allocator |-> {}, touched |-> <<>>]
        /\ ret = 0
        /\ boxes = <<>>

\* the renderer state st the handler ends with becomes the state; OutOfMemory makes
\* the event loop exit
RedrawDone(st, surface) ==
    /\ Commit(st, [name |-> "redraw", surface |-> surface, uniforms |-> scene.uniforms,
                   window_size |-> scene.inner_size])
    /\ boxes' = st.boxes
    /\ scene' = [scene EXCEPT !.frames = @ + 1,
                              !.uniforms = st.window_size,
                              !.open = surface # "OutOfMemory"]
    /\ UNCHANGED ret

\* Event::WindowEvent { event: WindowEvent::RedrawRequested }
Redraw(surface) ==
    /\ scene.open
    /\ panicked = "none"
    /\ scene.frames < MaxFrames
    /\ RedrawDone(render(update([State EXCEPT !.window_size = scene.uniforms],
                                scene.root, scene.inner_size),
                         surface),
                  surface)

\* Event::WindowEvent { event: WindowEvent::Resized(size) }: State::resize
Resized(new_size) ==
    /\ scene.open
    /\ panicked = "none"
    /\ new_size # scene.inner_size
    /\ ExactSplit(scene.root, Bbox(0, 0, new_size[1], new_size[2]))
    /\ Commit(State, [name |-> "resized", surface |-> "", uniforms |-> scene.uniforms,
                      window_size |-> new_size])
    /\ scene' = [scene EXCEPT !.inner_size = new_size,
                              !.size = IF new_size[1] > 0 /\ new_size[2] > 0
                                       THEN new_size ELSE @]
    /\ UNCHANGED <<ret, boxes>>

\* Event::WindowEvent { event: WindowEvent::CloseRequested }: elwt.exit()
CloseRequested ==
    /\ scene.open
    /\ panicked = "none"
    /\ Commit(State, [name |-> "close", surface |-> "", uniforms |-> scene.uniforms,
                      window_size |-> scene.inner_size])
    /\ scene' = [scene EXCEPT !.open = FALSE]
    /\ UNCHANGED <<ret, boxes>>

NextFrame ==
    \/ \E surface \in SurfaceResults : Redraw(surface)
    \/ \E size \in WindowSizes : Resized(size)
    \/ CloseRequested

SpecFrame == InitFrame /\ [][NextFrame]_vars

----------------------------------------------------------------------------
(* Vocabulary of the properties *)

EventsOf(kinds) == SelectSeq(log, LAMBDA e : e.ev \in kinds)

\* the characters evicted by the last operation, in order
Evicted == [i \in 1 .. Len(EventsOf({"pop_lru"})) |-> EventsOf({"pop_lru"})[i].ch]

\* the cached characters of atlas a, least recently requested first
ResidentsByTouch(a) == SelectSeq(a.touched, LAMBDA d : Has(a.allocations, d))

Drawable(c) == LoadCharOk(c) /\ ~IsWhitespace(c) /\ BitmapWidth(c) > 0 /\ BitmapRows(c) > 0

TooLarge(c) == BitmapWidth(c) + 2 > AtlasSize \/ BitmapRows(c) + 2 > AtlasSize

Regions(cache) ==
    { cache[i].alloc[1] : i \in { j \in 1 .. Len(cache) : cache[j].alloc # <<>> } }

RECURSIVE Area(_)
Area(rects) ==
    IF rects = {} THEN 0
    ELSE LET r == CHOOSE s \in rects : TRUE IN r.w * r.h + Area(rects \ {r})

----------------------------------------------------------------------------
(* Glyph atlas cache: properties of cache_char (specification Spec) *)

\* the last call was a miss of a drawable glyph on an atlas that held k-1 >= 1 glyphs,
\* all of the requested glyph's size and none of them whitespace, with no room left
C1_Case ==
    /\ op.name = "cache_char"
    /\ Drawable(op.c)
    /\ ~Has(pre.allocations, op.c)
    /\ pre.allocations # <<>>
    /\ \A i \in 1 .. Len(pre.allocations) :
          /\ pre.allocations[i].alloc # <<>>
          /\ pre.allocations[i].size = <<BitmapWidth(op.c), BitmapRows(op.c)>>
    /\ EventsOf({"allocate"})[1].rect = <<>>

\* C1: the k-th equal-sized glyph requested on an atlas holding k-1 of them evicts
\* exactly one entry, the least recently requested one; the requested character ends
\* up cached, and (k >= 3) the most recently requested resident is not evicted.
C1_EvictsExactlyTheLRU ==
    C1_Case =>
        LET r == ResidentsByTouch(pre) IN
        /\ panicked = "none"
        /\ Evicted = <<r[1]>>
        /\ Has(allocations, op.c)
        /\ allocations[Len(allocations)].ch = op.c
        /\ Len(r) >= 2 => Has(allocations, r[Len(r)]) /\ r[Len(r)] # r[1]

C1_Witness ==
    /\ C1_Case
    /\ Len(pre.allocations) = 2
    /\ Evicted # <<>>
    /\ prev.name = "cache_char"
    /\ Has(pre.allocations, prev.c)

\* C2: a second consecutive cache_char(c) returns the data of the first and neither
\* rasterizes (load_char) nor uploads (write_texture), for every character c.
C2_SecondCallIsFree ==
    (/\ op.name = "cache_char"
     /\ prev.name = "cache_char"
     /\ prev.c = op.c
     /\ panicked = "none")
        => /\ EventsOf({"load_char", "write_texture"}) = <<>>
           /\ Lookup(allocations, op.c) = Lookup(pre.allocations, op.c)

\* C3: requesting a glyph whose padded bitmap exceeds the atlas, on an empty cache,
\* returns to the caller (with an error value) instead of aborting.
C3_TooLargeReturns ==
    (/\ op.name = "cache_char"
     /\ LoadCharOk(op.c)
     /\ TooLarge(op.c)
     /\ pre.allocations = <<>>)
        => panicked = "none"

\* C5: caching a whitespace character calls neither allocate nor deallocate and evicts
\* nothing: the allocator and all other entries are unchanged, and the character's
\* entry has no region.
C5_WhitespaceLeavesAllocatorAlone ==
    (op.name = "cache_char" /\ IsWhitespace(op.c))
        => /\ EventsOf({"allocate", "deallocate", "pop_lru", "write_texture"}) = <<>>
           /\ allocator = pre.allocator
           /\ Without(allocations, op.c) = Without(pre.allocations, op.c)
           /\ Len(Lookup(allocations, op.c)) = 1
           /\ Lookup(allocations, op.c)[1].alloc = <<>>

C5_Witness ==
    /\ op.name = "cache_char"
    /\ IsWhitespace(op.c)
    /\ ~Has(pre.allocations, op.c)
    /\ Cardinality(pre.allocator) >= 2
    /\ Allocate(pre.allocator, 3, 3) = <<>>
    /\ Has(allocations, op.c)

\* C6: at most one entry per character; the regions of the entries are pairwise
\* disjoint, lie in the atlas and are exactly the allocator's live allocations; their
\* total area is at most the atlas area.
C6_AtlasInvariant ==
    /\ \A i, j \in 1 .. Len(allocations) :
          i # j => /\ allocations[i].ch # allocations[j].ch
                   /\ (allocations[i].alloc # <<>> /\ allocations[j].alloc # <<>>)
                         => ~Overlap(allocations[i].alloc[1], allocations[j].alloc[1])
    /\ Regions(allocations) = allocator
    /\ \A r \in allocator :
          /\ 0 <= r.x /\ r.x + r.w <= AtlasSize
          /\ 0 <= r.y /\ r.y + r.h <= AtlasSize
    /\ Area(allocator) <= AtlasSize * AtlasSize

C6_Witness ==
    /\ op.name = "cache_char"
    /\ Evicted # <<>>
    /\ panicked = "none"
    /\ Cardinality(allocator) >= 2
    /\ Len(allocations) > Cardinality(allocator)

----------------------------------------------------------------------------
(* Box layout: properties of Container::layout (specification SpecLayout) *)

\* the containers laid out by the last operation: the root and the nested ones
LaidOut ==
    {[path |-> <<>>, kind |-> op.tree.kind, n |-> Len(op.tree.elements),
      parent |-> op.parent_size]}
    \cup { [path |-> boxes[k].path, kind |-> boxes[k].kind,
            n |-> Len(op.tree.elements[boxes[k].path[1] + 1].elements),
            parent |-> boxes[k].bbox] :
             k \in { j \in 1 .. Len(boxes) : boxes[j].kind \in {"Hbox", "Vbox"} } }

\* the boxes handed to the element at insertion index i (from 0) of container k
ChildBoxes(k, i) ==
    { boxes[j].bbox : j \in { m \in 1 .. Len(boxes) : boxes[m].path = Append(k.path, i) } }

\* the root is a container of n elements of the given kind laid out in parent box b
RootIs(kind, n, b) ==
    /\ op.name = "layout"
    /\ op.tree.kind = kind
    /\ Len(op.tree.elements) = n
    /\ op.parent_size = b

\* C7 as stated: element i of a Vbox of n gets row n-1-i from the top, the first one
\* the bottom row: y-ranges [0,100) then [100,200) for two elements in (0,0)-(100,200).
C7_VboxFirstChildAtBottom ==
    op.name = "layout" =>
        /\ \A k \in LaidOut : \A i \in 0 .. k.n - 1 :
              k.kind = "Vbox" =>
                ChildBoxes(k, i) =
                    {Bbox(k.parent.min[1],
                          k.parent.min[2] + i * (height(k.parent) \div k.n),
                          k.parent.max[1],
                          k.parent.min[2] + (i + 1) * (height(k.parent) \div k.n))}
        /\ RootIs("Vbox", 2, Bbox(0, 0, 100, 200)) =>
              /\ ChildBoxes([path |-> <<>>], 0) = {Bbox(0, 0, 100, 100)}
              /\ ChildBoxes([path |-> <<>>], 1) = {Bbox(0, 100, 100, 200)}

\* C7 (amended): element i of a Vbox of n in parent box B gets the full x-range of B and
\* the y-range [B.minY + (n-1-i)*(B.height/n), B.minY + (n-i)*(B.height/n)): with the
\* top at max.y (top_left = (min.x, max.y)) that is row i from the top, the first
\* element in the top row; y-ranges [100,200) then [0,100) in (0,0)-(100,200).
C7_VboxFirstChildAtTop ==
    op.name = "layout" =>
        /\ \A k \in LaidOut : \A i \in 0 .. k.n - 1 :
              k.kind = "Vbox" =>
                ChildBoxes(k, i) =
                    {Bbox(k.parent.min[1],
                          k.parent.min[2] + (k.n - 1 - i) * (height(k.parent) \div k.n),
                          k.parent.max[1],
                          k.parent.min[2] + (k.n - i) * (height(k.parent) \div k.n))}
        /\ RootIs("Vbox", 2, Bbox(0, 0, 100, 200)) =>
              /\ ChildBoxes([path |-> <<>>], 0) = {Bbox(0, 100, 100, 200)}
              /\ ChildBoxes([path |-> <<>>], 1) = {Bbox(0, 0, 100, 100)}

C7_Witness ==
    /\ RootIs("Vbox", 2, Bbox(0, 0, 100, 200))
    /\ Len(boxes) >= 2
    /\ \E k \in LaidOut : k.path # <<>> /\ k.kind = "Vbox" /\ k.n = 2

\* C8: element i of an Hbox of n in parent box B gets the x-range
\* [B.minX + i*(B.width/n), B.minX + (i+1)*(B.width/n)) and the full y-range of B;
\* x-ranges [0,100), [100,200), [200,300) for three elements in (0,0)-(300,100).
C8_HboxColumnsInInsertionOrder ==
    op.name = "layout" =>
        /\ \A k \in LaidOut : \A i \in 0 .. k.n - 1 :
              k.kind = "Hbox" =>
                ChildBoxes(k, i) =
                    {Bbox(k.parent.min[1] + i * (width(k.parent) \div k.n),
                          k.parent.min[2],
                          k.parent.min[1] + (i + 1) * (width(k.parent) \div k.n),
                          k.parent.max[2])}
        /\ RootIs("Hbox", 3, Bbox(0, 0, 300, 100)) =>
              \A i \in 0 .. 2 :
                 ChildBoxes([path |-> <<>>], i) = {Bbox(100 * i, 0, 100 * i + 100, 100)}

C8_Witness ==
    /\ RootIs("Hbox", 3, Bbox(0, 0, 300, 100))
    /\ Len(boxes) >= 3
    /\ \E k \in LaidOut : k.path # <<>> /\ k.kind = "Hbox" /\ k.n >= 2

----------------------------------------------------------------------------
(* Text flow: properties of add_string_to_batch (specification SpecText) *)

\* the add_char_to_batch calls of the last operation that found their glyph
Drawn == EventsOf({"add_char"})

\* the pen heights at which the last operation placed characters
PenRows == { Drawn[i].at[2] : i \in 1 .. Len(Drawn) }

BadChars == { c \in Chars : ~LoadCharOk(c) \/ TooLarge(c) }

\* C4: a character whose glyph cannot be loaded or placed emits no quad, and every
\* other character of the string is still requested and laid out (the call returns).
C4_FailureIsolatedPerCharacter ==
    (/\ op.name = "add_string"
     /\ op.wrap = <<>>
     /\ \E i \in 1 .. Len(op.s) : op.s[i] \in BadChars)
        => /\ panicked = "none"
           /\ Len(EventsOf({"cache_char"})) = Len(op.s)
           /\ \A i \in 1 .. Len(Drawn) : Drawn[i].ch \notin BadChars

\* a string of ten drawable characters of one advance, in a wrap box three advances
\* wide and at least four lines high
C9_Case ==
    /\ op.name = "add_string"
    /\ op.wrap # <<>>
    /\ Len(op.s) = 10
    /\ \A i \in 1 .. 10 : Drawable(op.s[i]) /\ ~TooLarge(op.s[i])
                           /\ AdvanceX(op.s[i]) = AdvanceX(op.s[1])
    /\ width(op.wrap[1]) = 3 * AdvanceX(op.s[1])
    /\ height(op.wrap[1]) >= 4 * line_height

\* C9: such a string is wrapped into ceil(10/3) = 4 lines and the call returns
\* 4 * line_height.
C9_TenCharsWrapToFourLines ==
    C9_Case => /\ Cardinality(PenRows) = 4
               /\ ret = 4 * line_height

\* C10: in wrap mode the number of lines estimated from the total advance does not
\* change what is emitted: a call advances the pen at most once, and appends at most
\* one quad, per character of the string.
C10_OneQuadPerCharacter ==
    (op.name = "add_string" /\ op.wrap # <<>> /\ panicked = "none")
        => /\ Len(Drawn) <= Len(op.s)
           /\ Len(indices) <= 6 * Len(op.s)
           /\ Len(vertices) <= 4 * Len(op.s)

\* the last operation was add_string_to_batch without a wrap box on a non-empty string
\* whose characters all have a cached glyph, and it returned
C11_Case ==
    /\ op.name = "add_string"
    /\ op.wrap = <<>>
    /\ op.s # <<>>
    /\ panicked = "none"
    /\ \A i \in 1 .. Len(op.s) : Has(allocations, op.s[i])

\* C11: without a wrap box, a non-empty string is laid out on one line, the pen moving
\* left to right from the origin by each character's advance, and the call returns
\* exactly one line height.
C11_NoWrapReturnsOneLineHeight ==
    C11_Case =>
        /\ Len(Drawn) = Len(op.s)
        /\ Drawn[1].at = <<op.x, op.y - line_height>>
        /\ \A k \in 1 .. Len(Drawn) - 1 :
              /\ Drawn[k + 1].at[1] = Drawn[k].at[1] + AdvanceX(Drawn[k].ch)
              /\ Drawn[k + 1].at[2] = Drawn[k].at[2]
        /\ ret = line_height

\* C12: in wrap mode the call stops as soon as the pen is vertically outside the wrap
\* box: no add_char_to_batch (no quad, no pen advance) happens at a pen whose y is
\* outside [wrap_box.minY, wrap_box.maxY], and the call returns a height.
C12_StopsOutsideTheBoxVertically ==
    (op.name = "add_string" /\ op.wrap # <<>> /\ panicked = "none")
        => \A k \in 1 .. Len(Drawn) :
              /\ op.wrap[1].min[2] <= Drawn[k].at[2]
              /\ Drawn[k].at[2] <= op.wrap[1].max[2]

\* C13: with a wrap box every character is placed with its pen x inside
\* [wrap_box.minX, wrap_box.maxX], and its advance does not carry it past
\* wrap_box.maxX: the wrap happens before a character that would exceed maxX.
C13_StaysInsideTheBoxHorizontally ==
    (op.name = "add_string" /\ op.wrap # <<>> /\ panicked = "none")
        => \A k \in 1 .. Len(Drawn) :
              /\ op.wrap[1].min[1] <= Drawn[k].at[1]
              /\ Drawn[k].at[1] <= op.wrap[1].max[1]
              /\ Drawn[k].at[1] + AdvanceX(Drawn[k].ch) <= op.wrap[1].max[1]

\* C14: add_string_to_batch on the empty string returns a consumed height of zero and
\* emits nothing (no cache request, no pen advance, no vertex, no index), with and
\* without a wrap box.
C14_EmptyStringConsumesNothing ==
    (op.name = "add_string" /\ op.s = <<>>)
        => /\ panicked = "none"
           /\ ret = 0
           /\ EventsOf({"return"}) = <<PenEvent("return", "", <<>>, <<0>>)>>
           /\ EventsOf({"cache_char", "add_char"}) = <<>>
           /\ vertices = <<>> /\ indices = <<>>
           /\ allocations = pre.allocations /\ allocator = pre.allocator

C14_Witness ==
    /\ op.name = "add_string"
    /\ op.s = <<>>
    /\ op.wrap # <<>>
    /\ pre.allocations # <<>>
    /\ ret = 0

----------------------------------------------------------------------------
(* Multi-line text: properties of add_multiline_string_to_batch            *)
(* (specification SpecMultiline)                                           *)

\* the add_string_to_batch calls of the last operation, and what they returned
LineCalls == EventsOf({"add_string"})

LineReturns == EventsOf({"return"})

\* C15: the lines are laid out in order, each by add_string_to_batch, line j+1 at the
\* origin y of line j minus the height line j consumed; consequently two consecutive
\* non-empty lines never have the same origin y.
C15_LinesAdvanceByConsumedHeight ==
    (op.name = "add_multiline" /\ panicked = "none")
        => /\ Len(LineCalls) = Len(op.text)
           /\ Len(LineReturns) = Len(op.text)
           /\ \A j \in 1 .. Len(op.text) :
                 /\ LineCalls[j].ch = op.text[j]
                 /\ LineCalls[j].at[1] = op.x
                 /\ j = 1 => LineCalls[j].at[2] = op.y
                 /\ j > 1 => LineCalls[j].at[2] =
                                LineCalls[j - 1].at[2] - LineReturns[j - 1].at[1]
           /\ \A j \in 1 .. Len(op.text) - 1 :
                 (op.text[j] # <<>> /\ op.text[j + 1] # <<>>)
                    => LineCalls[j + 1].at[2] # LineCalls[j].at[2]

----------------------------------------------------------------------------
(* Text flow, continued (specification SpecText) *)

\* where the pen is when the character after the k-th placed one is placed: one advance
\* further, or at the start of the next line when that is past the right edge of the
\* wrap box or when the k-th character ended a pass over the string
PenAfter(k) ==
    LET nx == Drawn[k].at[1] + AdvanceX(Drawn[k].ch)
        y == Drawn[k].at[2]
    IN IF op.wrap # <<>> /\ (k % Len(op.s) = 0 \/ nx > op.wrap[1].max[1])
       THEN <<op.wrap[1].min[1], y - line_height>>
       ELSE <<nx, y>>

\* the quads in the batch
Quads == SelectSeq(Drawn, LAMBDA e : e.rect # <<>>)

\* C16: a whitespace character advances the pen by its advance and takes part in the
\* wrap decision like any other character (every character of the string is placed in
\* turn and the next pen position follows from its advance alone), but appends no
\* vertices and no indices: the batch holds one quad per placed non-whitespace glyph.
C16_WhitespaceAdvancesWithoutQuad ==
    (/\ op.name = "add_string"
     /\ panicked = "none"
     /\ \A i \in 1 .. Len(op.s) : IsWhitespace(op.s[i]) \/ Drawable(op.s[i]))
        => /\ \A k \in 1 .. Len(Drawn) :
                 /\ Drawn[k].ch = op.s[((k - 1) % Len(op.s)) + 1]
                 /\ k < Len(Drawn) => Drawn[k + 1].at = PenAfter(k)
                 /\ IsWhitespace(Drawn[k].ch) <=> Drawn[k].rect = <<>>
           /\ op.wrap = <<>> => Len(Drawn) = Len(op.s)
           /\ Len(vertices) = 4 * Len(Quads)
           /\ Len(indices) = 6 * Len(Quads)

\* a whitespace character was placed at the right edge of the wrap box, so that the
\* character after it went to the next line
C16_Witness ==
    /\ op.name = "add_string"
    /\ panicked = "none"
    /\ op.wrap # <<>>
    /\ \E k \in 1 .. Len(Drawn) - 1 :
          /\ IsWhitespace(Drawn[k].ch)
          /\ k % Len(op.s) # 0
          /\ Drawn[k].at[1] + AdvanceX(Drawn[k].ch) > op.wrap[1].max[1]
          /\ Drawn[k + 1].at = <<op.wrap[1].min[1], Drawn[k].at[2] - line_height>>
          /\ Drawn[k + 1].rect # <<>>
    /\ Len(Quads) < Len(Drawn)

----------------------------------------------------------------------------
(* Glyph atlas cache on glyphs of mixed sizes (specification SpecMixed) *)

\* the texture writes of the last operation
Uploads == EventsOf({"write_texture"})

\* C17: a miss of a non-whitespace glyph that ends in an insertion makes exactly one
\* texture write, of the padded bitmap (width + 2 by rows + 2), at the origin
\* (min.x, min.y) of the region allocated for the glyph, however many evictions the
\* miss needed; a hit and a whitespace miss make none.
C17_OneUploadPerInsertion ==
    (op.name = "cache_char" /\ panicked = "none")
        => IF ~Has(pre.allocations, op.c) /\ Drawable(op.c)
           THEN /\ Has(allocations, op.c)
                /\ Len(Uploads) = 1
                /\ Uploads[1].ch = op.c
                /\ Uploads[1].rect = Lookup(allocations, op.c)[1].alloc
                /\ Uploads[1].at = <<Uploads[1].rect[1].x, Uploads[1].rect[1].y,
                                     BitmapWidth(op.c) + 2, BitmapRows(op.c) + 2>>
                /\ Uploads[1].rect[1] \in allocator
           ELSE Uploads = <<>>

\* a miss that needed two evictions, right after a hit, on an atlas that held a region
\* away from the origin of the texture
C17_Witness ==
    /\ op.name = "cache_char"
    /\ panicked = "none"
    /\ Len(Evicted) >= 2
    /\ Len(Uploads) = 1
    /\ prev.name = "cache_char"
    /\ Has(pre.allocations, prev.c)
    /\ \E r \in pre.allocator : r.x > 0

----------------------------------------------------------------------------
(* Cache fill and quad emission (specification SpecText) *)

\* the positions in the call log at which add_char_to_batch appended a quad
QuadAt == { i \in 1 .. Len(log) : log[i].ev = "add_char" /\ log[i].rect # <<>> }

\* the call log between positions j and i holds nothing but the steps of one cache_char
FillOnly(j, i) ==
    \A k \in (j + 1) .. (i - 1) :
        log[k].ev \in {"load_char", "allocate", "pop_lru", "deallocate",
                       "write_texture", "put"}

\* the region of character c in the cache when position i of the call log is reached:
\* that of its last put, none after its eviction, the one it came with otherwise
CachedAt(i, c) ==
    LET changes == { k \in 1 .. (i - 1) :
                        log[k].ev \in {"put", "pop_lru"} /\ log[k].ch = c }
    IN IF changes = {}
       THEN (IF Has(pre.allocations, c) THEN Lookup(pre.allocations, c)[1].alloc
             ELSE <<>>)
       ELSE LET last == CHOOSE k \in changes : \A m \in changes : m <= k
            IN IF log[last].ev = "put" THEN log[last].rect ELSE <<>>

\* the texture under region r still holds the bitmap of c at position i: the last
\* write that touched it, if the call made one, wrote c into r at r's origin
HoldsBitmap(i, c, r) ==
    LET writes == { k \in 1 .. (i - 1) :
                       log[k].ev = "write_texture" /\ Overlap(log[k].rect[1], r[1]) }
    IN IF writes = {}
       THEN Has(pre.allocations, c) /\ Lookup(pre.allocations, c)[1].alloc = r
       ELSE LET last == CHOOSE k \in writes : \A m \in writes : m <= k
            IN /\ log[last].ch = c
               /\ log[last].rect = r
               /\ log[last].at[1] = r[1].x /\ log[last].at[2] = r[1].y

\* the texture coordinates of the four vertices of the q-th quad of the batch
QuadTexCoords(q) == [v \in 1 .. 4 |-> vertices[4 * (q - 1) + v].tex_coords]

\* the rectangle of the atlas texture the coordinates tc of a quad span, in pixels
Sampled(tc) ==
    [x0 |-> tc[4][1].num, y0 |-> tc[4][2].num, x1 |-> tc[2][1].num, y1 |-> tc[2][2].num]

\* C18: whenever add_char_to_batch appends a quad for c, the cache_char call for c has
\* just completed, c is in the cache with a region, the bitmap of c has been uploaded
\* into that region and is still there, and the quad's texture coordinates lie in
\* that region.
C18_FillPrecedesQuad ==
    (op.name = "add_string" /\ panicked = "none")
        => \A i \in QuadAt :
              LET c == log[i].ch
                  r == log[i].rect
                  q == Cardinality({ k \in QuadAt : k <= i })
              IN /\ \E j \in 1 .. (i - 1) :
                       log[j].ev = "cache_char" /\ log[j].ch = c /\ FillOnly(j, i)
                 /\ CachedAt(i, c) = r
                 /\ HoldsBitmap(i, c, r)
                 /\ Sampled(QuadTexCoords(q)).x0 >= r[1].x
                 /\ Sampled(QuadTexCoords(q)).y0 >= r[1].y
                 /\ Sampled(QuadTexCoords(q)).x1 <= r[1].x + r[1].w
                 /\ Sampled(QuadTexCoords(q)).y1 <= r[1].y + r[1].h
                 /\ Sampled(QuadTexCoords(q)).x0 < Sampled(QuadTexCoords(q)).x1
                 /\ Sampled(QuadTexCoords(q)).y0 < Sampled(QuadTexCoords(q)).y1

\* a call in which one quad followed the upload of its glyph into a region freed by an
\* eviction during the call, and another quad was drawn from a hit
C18_Witness ==
    /\ op.name = "add_string"
    /\ panicked = "none"
    /\ Evicted # <<>>
    /\ \E i \in QuadAt : log[i - 1].ev = "put" /\ log[i - 1].ch = log[i].ch
                         /\ \E k \in 1 .. (i - 1) :
                               log[k].ev = "deallocate" /\ log[k].rect = log[i].rect
    /\ \E i \in QuadAt : log[i - 1].ev = "cache_char"

----------------------------------------------------------------------------
(* The frame: properties of SceneRoot::update and State::render            *)
(* (specification SpecFrame)                                               *)

\* the positions of the call log that hold a step of the given kinds
StepsOf(kinds) == { i \in 1 .. Len(log) : log[i].ev \in kinds }

\* the steps of the layout pass: laying out strings, and filling the glyph cache
LayoutSteps ==
    StepsOf({"add_string", "return", "add_char", "cache_char", "load_char", "allocate",
             "pop_lru", "deallocate", "write_texture", "put"})

\* the batches and the counts uploaded (or drawn) by the steps of kind ev, in order
Transfers(ev) ==
    [k \in 1 .. Len(EventsOf({ev})) |-> <<EventsOf({ev})[k].ch, EventsOf({ev})[k].at[1]>>]

RectBoxes == SelectSeq(boxes, LAMBDA b : b.kind \in {"Quad", "Text", "TextMultiLine"})

\* the quads appended by this frame's layout pass
FrameQuads == SelectSeq(log, LAMBDA e : e.ev = "add_char" /\ e.rect # <<>>)

\* C20: after SceneRoot::update the batches hold exactly what this frame's layout pass
\* emitted, whatever the number of frames before: one rectangle instance per laid-out
\* rectangle or text element, in order, and four vertices and six indices per glyph
\* quad, in order.
C20_BatchesRebuiltEveryFrame ==
    (op.name = "redraw" /\ panicked = "none")
        => /\ Len(instances) = Len(RectBoxes)
           /\ \A k \in 1 .. Len(instances) :
                 instances[k].origin = center(RectBoxes[k].bbox)
           /\ Len(vertices) = 4 * Len(FrameQuads)
           /\ Len(indices) = 6 * Len(FrameQuads)
           /\ \A q \in 1 .. Len(FrameQuads) :
                 /\ vertices[4 * (q - 1) + 1].pos =
                       <<FrameQuads[q].at[1] + BitmapLeft(FrameQuads[q].ch),
                         FrameQuads[q].at[2] + BitmapTop(FrameQuads[q].ch)
                                             - BitmapRows(FrameQuads[q].ch)>>
                 /\ indices[6 * (q - 1) + 1] = U16(4 * (q - 1))

\* a frame that follows another frame which left vertices and instances in the batches
C20_Witness ==
    /\ op.name = "redraw"
    /\ panicked = "none"
    /\ prev.name = "redraw"
    /\ scene.frames = MaxFrames
    /\ vertices # <<>>
    /\ instances # <<>>

----------------------------------------------------------------------------
(* The eviction loop of cache_char (specification Spec) *)

\* the entries popped, the allocation attempts and the regions freed by the last call
Pops == EventsOf({"pop_lru"})

Tries == EventsOf({"allocate"})

Frees == EventsOf({"deallocate"})

\* C22: a miss that reaches the loop retries after each failed allocation, evicting the
\* least recently used entry each time (freeing its region if it has one, removing it
\* from the cache); the loop ends after at most as many evictions as the cache had
\* entries when the call began, the character being inserted is never evicted, and
\* the entries not evicted are untouched.
C22_EvictionLoopTerminates ==
    (op.name = "cache_char" /\ ~Has(pre.allocations, op.c) /\ Drawable(op.c))
        => /\ Len(Pops) <= Len(pre.allocations)
           /\ Len(Tries) = Len(Pops) + 1
           /\ \A k \in 1 .. Len(Pops) :
                 /\ Tries[k].rect = <<>>
                 /\ Pops[k].ch = ResidentsByTouch(pre)[k]
                 /\ Pops[k].ch # op.c
                 /\ Pops[k].rect = Lookup(pre.allocations, Pops[k].ch)[1].alloc
                 /\ ~Has(allocations, Pops[k].ch)
           /\ Len(Frees) = Len(SelectSeq(Pops, LAMBDA e : e.rect # <<>>))
           /\ \A k \in 1 .. Len(Frees) :
                 /\ Frees[k].ch = SelectSeq(Pops, LAMBDA e : e.rect # <<>>)[k].ch
                 /\ Frees[k].rect = SelectSeq(Pops, LAMBDA e : e.rect # <<>>)[k].rect
           /\ \A k \in 1 .. Len(Frees) :
                 Frees[k].rect[1] \notin allocator \/ Frees[k].rect = Tries[Len(Tries)].rect
           /\ Without(allocations, op.c) =
                 SubSeq(pre.allocations, Len(Pops) + 1, Len(pre.allocations))
           /\ IF panicked = "none"
              THEN /\ Tries[Len(Tries)].rect # <<>>
                   /\ Has(allocations, op.c)
              ELSE /\ panicked = "pop_lru"
                   /\ Tries[Len(Tries)].rect = <<>>
                   /\ Len(Pops) = Len(pre.allocations)
                   /\ allocations = <<>>

\* a miss that evicted several entries, one of them without a region, and then placed
\* its glyph while a more recently used entry stayed
C22_Witness ==
    /\ op.name = "cache_char"
    /\ panicked = "none"
    /\ Len(Pops) >= 2
    /\ Len(Frees) < Len(Pops)
    /\ Len(allocations) >= 2
    /\ Has(allocations, op.c)

\* C23: after cache_char(c) returns, c is in the cache as its most recently used
\* entry, whatever the character (also one whose bitmap is empty), so the lookup
\* that follows cache_char in the measuring pass never misses.
C23_ReturnedCharIsMostRecent ==
    /\ (op.name = "cache_char" /\ panicked = "none")
          => /\ Has(allocations, op.c)
             /\ allocations[Len(allocations)].ch = op.c
    /\ panicked # "get_unwrap"

\* C24: a request for a glyph that cannot fit the atlas, made while the cache is not
\* empty, leaves the entries cached before it in the cache, with their regions still
\* allocated.
C24_TooLargeLeavesCacheAlone ==
    (op.name = "cache_char" /\ LoadCharOk(op.c) /\ TooLarge(op.c)
        /\ pre.allocations # <<>>)
        => /\ \A i \in 1 .. Len(pre.allocations) :
                 Lookup(allocations, pre.allocations[i].ch) = <<pre.allocations[i]>>
           /\ Regions(pre.allocations) \subseteq allocator

----------------------------------------------------------------------------
(* The glyph cache within one frame (specification SpecFrame) *)

\* C25: when the layout pass of a frame is over, every glyph quad of the batch refers
\* to a region that is still the cached region of its character and still holds that
\* character's bitmap: none was evicted, handed out again and overwritten meanwhile.
C25_QuadsReferenceLiveRegions ==
    (op.name = "redraw" /\ panicked = "none")
        => \A i \in QuadAt :
              /\ CachedAt(Len(log) + 1, log[i].ch) = log[i].rect
              /\ HoldsBitmap(Len(log) + 1, log[i].ch, log[i].rect)

\* the last step of kind ev about character c before position i of the call log (0: none)
LastBefore(i, ev, c) ==
    LET at == { k \in 1 .. (i - 1) : log[k].ev = ev /\ log[k].ch = c }
    IN IF at = {} THEN 0 ELSE CHOOSE k \in at : \A m \in at : m <= k

\* the steps of the frame where a glyph is evicted
PopAt == StepsOf({"pop_lru"})

\* C26: within one frame an eviction is always made by a miss on another glyph, takes
\* a glyph not requested since that miss began, and the next request for the evicted
\* glyph in the frame rasterizes it again and, when it has a bitmap, uploads it
\* again; a frame whose glyphs do not all fit the atlas uploads a glyph twice.
C26_EvictedGlyphIsRasterizedAgain ==
    op.name = "redraw"
        => \A k \in PopAt :
              LET c == log[k].ch
                  miss == CHOOSE j \in StepsOf({"cache_char"}) :
                              j < k /\ \A m \in StepsOf({"cache_char"}) : m < k => m <= j
              IN /\ \E j \in StepsOf({"cache_char"}) : j < k
                 /\ log[miss].ch # c
                 /\ log[miss + 1].ev = "load_char"
                 /\ \A j \in StepsOf({"cache_char"}) :
                       (j > k /\ log[j].ch = c /\ LastBefore(j, "put", c) < k)
                           => /\ j < Len(log)
                              /\ log[j + 1].ev = "load_char"
                              /\ log[j + 1].ch = c
                              /\ (Drawable(c) /\ panicked = "none")
                                    => \E u \in StepsOf({"write_texture"}) :
                                          u > j /\ log[u].ch = c /\ FillOnly(j, u)

\* a frame in which a glyph was uploaded, evicted by the miss of another glyph, and
\* uploaded a second time for a later use
C26_Witness ==
    /\ op.name = "redraw"
    /\ panicked = "none"
    /\ \E k \in PopAt :
          /\ LastBefore(k, "write_texture", log[k].ch) > 0
          /\ \E u \in StepsOf({"write_texture"}) :
                /\ u > k
                /\ log[u].ch = log[k].ch
                /\ \E q \in QuadAt : q > u /\ log[q].ch = log[k].ch /\ log[q].rect = log[u].rect

----------------------------------------------------------------------------
(* Cache hits and padding *)

\* C27: a cache hit changes the recency order only: the requested character becomes
\* the most recently used entry, every entry keeps its metrics and its region, the
\* other entries keep their relative order, the allocator is unchanged, and nothing
\* is rasterized, allocated, evicted or uploaded.
C27_HitChangesRecencyOnly ==
    (op.name = "cache_char" /\ Has(pre.allocations, op.c))
        => /\ panicked = "none"
           /\ allocations[Len(allocations)].ch = op.c
           /\ Len(allocations) = Len(pre.allocations)
           /\ \A i \in 1 .. Len(pre.allocations) :
                 Lookup(allocations, pre.allocations[i].ch) = <<pre.allocations[i]>>
           /\ Without(allocations, op.c) = Without(pre.allocations, op.c)
           /\ allocator = pre.allocator
           /\ Regions(allocations) = allocator
           /\ EventsOf({"load_char", "allocate", "pop_lru", "deallocate",
                        "write_texture", "put"}) = <<>>

\* a hit on the least recently used of three entries, which has a region
C27_Witness ==
    /\ op.name = "cache_char"
    /\ Len(pre.allocations) >= 3
    /\ pre.allocations[1].ch = op.c
    /\ pre.allocations[1].alloc # <<>>
    /\ allocations[Len(allocations)].ch = op.c
    /\ allocations # pre.allocations

\* C28: every region is allocated one pixel larger than the bitmap on each edge
\* (width + 2 by rows + 2), and the texture coordinates of every glyph quad are the
\* corners of the width by rows rectangle that starts at the region's origin plus
\* (1, 1): inside the glyph's own region, one pixel away from each of its edges
\* (specification SpecText).
C28_QuadsSampleInsidePadding ==
    op.name = "add_string"
        => /\ \A k \in StepsOf({"allocate"}) :
                 log[k].rect # <<>>
                     => /\ log[k].rect[1].w = BitmapWidth(log[k].ch) + 2
                        /\ log[k].rect[1].h = BitmapRows(log[k].ch) + 2
           /\ Len(vertices) = 4 * Cardinality(QuadAt)
           /\ \A i \in QuadAt :
                 LET r == log[i].rect[1]
                     tc == QuadTexCoords(Cardinality({ k \in QuadAt : k <= i }))
                     x0 == TexCoord(r.x + 1)
                     y0 == TexCoord(r.y + 1)
                     x1 == TexCoord(r.x + 1 + BitmapWidth(log[i].ch))
                     y1 == TexCoord(r.y + 1 + BitmapRows(log[i].ch))
                 IN /\ tc = <<(<<x0, y1>>), (<<x1, y1>>), (<<x1, y0>>), (<<x0, y0>>)>>
                    /\ r.x < x0.num /\ x0.num < x1.num /\ x1.num < r.x + r.w
                    /\ r.y < y0.num /\ y0.num < y1.num /\ y1.num < r.y + r.h
                    /\ x1.num = r.x + r.w - 1
                    /\ y1.num = r.y + r.h - 1
                    /\ x0.den = AtlasSize

\* a string whose quads sample two regions, one of them away from the atlas origin,
\* one of them placed after an eviction
C28_Witness ==
    /\ op.name = "add_string"
    /\ panicked = "none"
    /\ Pops # <<>>
    /\ \E i, j \in QuadAt : log[i].rect[1].x > 0 /\ log[j].rect[1].x = 0
    /\ Len(vertices) >= 8

----------------------------------------------------------------------------
(* Containers partition their box (specification SpecLayout) *)

\* the two boxes share no interior point
DisjointInteriors(a, b) ==
    ~(/\ a.min[1] < b.max[1] /\ b.min[1] < a.max[1]
      /\ a.min[2] < b.max[2] /\ b.min[2] < a.max[2])

\* the box handed to element i of container k
ChildBox(k, i) == CHOOSE b \in ChildBoxes(k, i) : TRUE

\* the total area of the boxes of the first i elements of container k
RECURSIVE ChildArea(_, _)
ChildArea(k, i) ==
    IF i = 0 THEN 0
    ELSE width(ChildBox(k, i - 1)) * height(ChildBox(k, i - 1)) + ChildArea(k, i - 1)

\* C29: a container of n >= 1 elements laid out in a box with min <= max hands each
\* element one box with min <= max, inside the container's box; the boxes of two
\* elements share no interior point and together the boxes cover the container's
\* box exactly (each starts where the box or another one ends, on both axes, and
\* the areas add up); the same holds for a nested container in the box it was
\* handed; a container without elements hands out no box and adds nothing to the
\* batches.
C29_ChildrenPartitionParent ==
    op.name = "layout"
        => /\ \A k \in LaidOut :
                 /\ k.parent.min[1] <= k.parent.max[1]
                 /\ k.parent.min[2] <= k.parent.max[2]
                 /\ \A j \in 1 .. Len(boxes) :
                       (Len(boxes[j].path) = Len(k.path) + 1
                        /\ SubSeq(boxes[j].path, 1, Len(k.path)) = k.path)
                           => boxes[j].path[Len(k.path) + 1] \in 0 .. k.n - 1
                 /\ \A i \in 0 .. k.n - 1 :
                       /\ Cardinality(ChildBoxes(k, i)) = 1
                       /\ ChildBox(k, i).min[1] <= ChildBox(k, i).max[1]
                       /\ ChildBox(k, i).min[2] <= ChildBox(k, i).max[2]
                       /\ k.parent.min[1] <= ChildBox(k, i).min[1]
                       /\ k.parent.min[2] <= ChildBox(k, i).min[2]
                       /\ ChildBox(k, i).max[1] <= k.parent.max[1]
                       /\ ChildBox(k, i).max[2] <= k.parent.max[2]
                       /\ \A d \in 1 .. 2 :
                             /\ \/ ChildBox(k, i).min[d] = k.parent.min[d]
                                \/ \E j \in 0 .. k.n - 1 :
                                      ChildBox(k, j).max[d] = ChildBox(k, i).min[d]
                             /\ \/ ChildBox(k, i).max[d] = k.parent.max[d]
                                \/ \E j \in 0 .. k.n - 1 :
                                      ChildBox(k, j).min[d] = ChildBox(k, i).max[d]
                       /\ \A j \in 0 .. k.n - 1 :
                             j # i => DisjointInteriors(ChildBox(k, i), ChildBox(k, j))
                 /\ k.n >= 1 => ChildArea(k, k.n) = width(k.parent) * height(k.parent)
           /\ Len(op.tree.elements) = 0
                 => /\ boxes = <<>>
                    /\ instances = <<>> /\ textured = <<>>
                    /\ vertices = <<>> /\ indices = <<>>

\* three elements in a box of positive area, the second a container of two laid out
\* in turn in the box it was handed
C29_Witness ==
    /\ op.name = "layout"
    /\ Len(op.tree.elements) = 3
    /\ width(op.parent_size) * height(op.parent_size) > 0
    /\ \E k \in LaidOut :
          /\ k.path = <<1>>
          /\ k.n = 2
          /\ k.kind # op.tree.kind
          /\ Cardinality(ChildBoxes(k, 0) \cup ChildBoxes(k, 1)) = 2

----------------------------------------------------------------------------
(* The glyph batch late in a frame: one call of add_string_to_batch on a   *)
(* batch that already holds the quads of the text laid out before it.      *)

\* "let max_chars = 4096": the vertex buffer holds 4 * max_chars vertices and the
\* index buffer 6 * max_chars indices
max_chars == 4096

\* the number of quads at which "(4 * (self.indices.len() / 6)) as u16" truncates
IndexSpan == 65536 \div 4

\* how many glyphs the frame has laid out before the call
Earlier == {0, 1, max_chars - 2, max_chars - 1, max_chars, max_chars + 1, IndexSpan}

BatchStrings == { Repeat(p, n) : p \in {<<"a">>, <<"a", "b">>, <<"b", " ">>}, n \in 0 .. 4 }

\* the vertex at position i (from 1) of a batch of quads of one glyph laid out on a
\* line from pen (0, 0), with texture coordinates x0, x1, y0, y1
LineVertex(i, glyph, x0, x1, y0, y1) ==
    LET x == ((i - 1) \div 4) * glyph.advance[1] + glyph.pos[1]
        y == glyph.pos[2]
    IN CASE i % 4 = 1 -> [pos |-> <<x, y>>, tex_coords |-> <<x0, y1>>]
         [] i % 4 = 2 -> [pos |-> <<x + glyph.size[1], y>>, tex_coords |-> <<x1, y1>>]
         [] i % 4 = 3 -> [pos |-> <<x + glyph.size[1], y + glyph.size[2]>>,
                          tex_coords |-> <<x1, y0>>]
         [] i % 4 = 0 -> [pos |-> <<x, y + glyph.size[2]>>, tex_coords |-> <<x0, y0>>]

\* st with the batch of a line of n quads of the cached glyph
FilledWith(st, glyph, n) ==
    [st EXCEPT
        !.indices = [i \in 1 .. 6 * n |->
                        U16(U16(4 * ((i - 1) \div 6))
                            + <<0, 1, 2, 0, 2, 3>>[((i - 1) % 6) + 1])],
        !.vertices = [i \in 1 .. 4 * n |->
                        LineVertex(i, glyph,
                                   TexCoord(glyph.alloc[1].x + 1),
                                   TexCoord(glyph.alloc[1].x + 1 + glyph.size[1]),
                                   TexCoord(glyph.alloc[1].y + 1),
                                   TexCoord(glyph.alloc[1].y + 1 + glyph.size[2]))]]

FilledFrom(st, n) == FilledWith(st, Lookup(st.allocations, "a")[1], n)

\* the renderer after a line of n glyphs 'a' laid out from pen (0, 0): the quads
\* add_char_to_batch appended for it, quad j at pen x = j * advance
Filled(n) == FilledFrom(Warm(EmptyState, <<"a">>), n)

InitBatch ==
    \E n \in Earlier, s \in BatchStrings : \E st \in {Filled(n)} :
        /\ n = IndexSpan => s = <<"a">>
        /\ scene = NoScene
        /\ allocations = st.allocations
        /\ allocator = st.allocator
        /\ panicked = "none"
        /\ vertices = st.vertices
        /\ indices = st.indices
        /\ instances = <<>>
        /\ textured = <<>>
        /\ log = <<>>
        /\ touched = <<"a">>
        /\ op = [name |-> "call", c |-> "", s |-> s, wrap |-> <<>>,
                 x |-> 0, y |-> 0, earlier |-> n]
        /\ prev = NoOp
        /\ pre = [allocations |-> st.allocations, allocator |-> st.allocator,
                  touched |-> <<"a">>]
        /\ ret = 0
        /\ boxes = <<>>

SpecBatch == InitBatch /\ [][NextText]_vars

\* C30: whatever the number q of glyph quads appended to the batch in a frame, the
\* batch holds 4q vertices and 6q indices, the indices of quad j (from 0) are
\* 4j, 4j+1, 4j+2, 4j, 4j+2, 4j+3, all referring to the four vertices of quad j (so
\* the 16-bit value 4j has not wrapped), and the batch fits the vertex and index
\* buffers made for max_chars glyphs.
C30_BatchGeometryFitsBuffers ==
    (op.name = "add_string" /\ panicked = "none")
        => LET q == op.earlier + Cardinality(QuadAt) IN
           /\ Len(vertices) = 4 * q
           /\ Len(indices) = 6 * q
           /\ \A j \in 0 .. q - 1 :
                 /\ indices[6 * j + 1] = 4 * j
                 /\ indices[6 * j + 2] = 4 * j + 1
                 /\ indices[6 * j + 3] = 4 * j + 2
                 /\ indices[6 * j + 4] = 4 * j
                 /\ indices[6 * j + 5] = 4 * j + 2
                 /\ indices[6 * j + 6] = 4 * j + 3
                 /\ 4 * j + 3 < Len(vertices)
           /\ Len(vertices) <= 4 * max_chars
           /\ Len(indices) <= 6 * max_chars

====
